---- MODULE Spec2Model ----
(***************************************************************************)
(* A model of term_deck: the Presentation navigation state machine and the *)
(* key loop of main with the notification-clear tasks it spawns            *)
(* (src/src/main.rs, src/src/rendering.rs), the front-matter parser        *)
(* parse_metadata and the slide split (src/src/main.rs), and the slide     *)
(* renderer (src/src/rendering.rs): the line loop of render_slide, the     *)
(* token merge of render_code_block, extract_prefix, the centering of      *)
(* render_text_centered and the length of the progress bar.                *)
(*                                                                         *)
(* The key loop is modelled with each key handler as one step and the      *)
(* terminal wide enough for what the handler writes; the arithmetic on the *)
(* terminal width has specifications of its own.                           *)
(*                                                                         *)
(* Each part has its own specification over its own variables; the         *)
(* variables of the other parts are parked at a fixed value.               *)
(***************************************************************************)
EXTENDS Integers, Sequences, FiniteSets, TLC

VARIABLES
    \* ---- Presentation and the key loop of main (SpecNav)
    slides_len,             \* presentation.slides.len()
    current_slide,          \* presentation.current_slide
    current_theme_index,    \* presentation.current_theme_index
    pc,                     \* main: "waiting" for a key, "quit", "panicked"
    lastKey,                \* history: the key handled last ("none" at start)
    prevSlide,              \* history: current_slide before that key
    prevTheme,              \* history: current_theme_index before that key
    themeHist,              \* history: the theme index at start and after each 't'
    corner,                 \* the text the top-right corner of the screen shows
    clearsSleeping,         \* clear tasks spawned that have not begun to write
    clearsWriting,          \* clear tasks that wrote their cursor move and have not flushed
    clearsDone,             \* clear tasks that have flushed their blanking write
    prevStarted,            \* history: the clear tasks started before the last key
    raced,                  \* history: the last key's render wrote while a clear task was mid-write
    clearedSinceKey,        \* history: a clear task has flushed since the last key
    rendered,               \* history: the indices the last render_slide was made from
    \* ---- render_code_block, one iteration of its loop over the lines (SpecMerge)
    mLanguage,              \* block.language: the tag behind the opening fence
    mTokens,                \* tokens: the result of parse_syntax, sorted by start
    mLineStart,             \* line_start: the outer current_pos at this line
    mLineLen,               \* line.len()
    mpc,                    \* "line" (before the line), "walk" (second pass), "eol"
    mPos,                   \* the inner current_pos of the second pass
    mOut,                   \* the text written for the line: segments of bytes
    \* ---- render_slide, the loop over the lines of the slide (SpecSlide)
    sLines,                 \* lines: the lines of the current slide
    sI,                     \* i: the line cursor
    spc,                    \* "loop", "done" (footer rendered), "panicked", "exited"
    sLog,                   \* history: what each iteration rendered, in order
    \* ---- render_text_centered (SpecCentered)
    cWidth,                 \* width, of terminal_size()
    cTextLen,               \* text.len()
    cpc,                    \* "call", "done", "panicked" (the subtraction), "aborted" (repeat)
    cPadding,               \* padding
    \* ---- parse_metadata (SpecMetadata)
    dContent,               \* content: the text of the presentation file
    dpc,                    \* "call", "done"
    dMetadata,              \* the Metadata returned
    dBody,                  \* content_without_metadata
    \* ---- main, the split of the body into slides (SpecSplit)
    bBody,                  \* content_without_metadata, as main splits it
    bpc,                    \* "call", "done"
    bSlides,                \* slides: Vec<&str>
    \* ---- render_progress_bar (SpecProgress)
    gWidth,                 \* width, of terminal_size()
    gCurrent,               \* current_slide
    gTotal,                 \* total_slides
    gpc,                    \* "call", "done", "panicked", "aborted"
    gLength,                \* progress_length
    gBlank,                 \* width as usize - progress_length
    \* ---- extract_prefix (SpecPrefix)
    xInput,                 \* s
    xpc,                    \* "call", "done"
    xResult                 \* the pair returned: [prefix, rest]

navVars == <<slides_len, current_slide, current_theme_index, pc, lastKey,
             prevSlide, prevTheme, themeHist, corner, clearsSleeping,
             clearsWriting, clearsDone, prevStarted, raced, clearedSinceKey,
             rendered>>

\* The clear tasks and the histories about them.
clearVars == <<clearsSleeping, clearsWriting, clearsDone>>

mergeVars == <<mLanguage, mTokens, mLineStart, mLineLen, mpc, mPos, mOut>>

slideVars == <<sLines, sI, spc, sLog>>

centeredVars == <<cWidth, cTextLen, cpc, cPadding>>
metadataVars == <<dContent, dpc, dMetadata, dBody>>

splitVars == <<bBody, bpc, bSlides>>

progressVars == <<gWidth, gCurrent, gTotal, gpc, gLength, gBlank>>

prefixVars == <<xInput, xpc, xResult>>

vars == <<navVars, mergeVars, slideVars, centeredVars, metadataVars,
          splitVars, progressVars, prefixVars>>

nonNavVars == <<mergeVars, slideVars, centeredVars, metadataVars,
                splitVars, progressVars, prefixVars>>
nonMergeVars == <<navVars, slideVars, centeredVars, metadataVars,
                  splitVars, progressVars, prefixVars>>
nonSlideVars == <<navVars, mergeVars, centeredVars, metadataVars,
                  splitVars, progressVars, prefixVars>>
nonCenteredVars == <<navVars, mergeVars, slideVars, metadataVars,
                     splitVars, progressVars, prefixVars>>
nonMetadataVars == <<navVars, mergeVars, slideVars, centeredVars,
                     splitVars, progressVars, prefixVars>>
nonSplitVars == <<navVars, mergeVars, slideVars, centeredVars, metadataVars,
                  progressVars, prefixVars>>
nonProgressVars == <<navVars, mergeVars, slideVars, centeredVars, metadataVars,
                     splitVars, prefixVars>>
nonPrefixVars == <<navVars, mergeVars, slideVars, centeredVars, metadataVars,
                   splitVars, progressVars>>

Min(a, b) == IF a <= b THEN a ELSE b
Max(a, b) == IF a >= b THEN a ELSE b

(***************************************************************************)
(* Bounds of the model.                                                    *)
(***************************************************************************)
MaxSlides == 4      \* presentations of 1 .. MaxSlides slides
MaxCycles == 7      \* at most this many 't' keys are followed
MaxTokens == 2      \* the highlight query yields at most this many captures
MaxLineLen == 3     \* a code line has at most this many bytes
MaxLineStart == 1   \* the code line starts at most this far into the content
MaxSlideLines == 4  \* a slide has at most this many lines
MaxWidth == 8       \* the terminal is at most this wide
MaxTextLen == 10    \* a centered text has at most this many bytes
MaxDocLines == 5    \* a presentation file has at most this many lines
MaxBodyLen == 7     \* a body to split has at most this many atoms
MaxStrLen == 5      \* an argument of extract_prefix has at most this many characters

(***************************************************************************)
(* Presentation (src/src/main.rs)                                          *)
(***************************************************************************)
\* Presentation::new builds the theme list with three entries.
NumThemes == 3

\* usize::saturating_sub
saturating_sub(a, b) == IF a >= b THEN a - b ELSE 0

\* usize::saturating_add; the saturation at usize::MAX is out of reach of the
\* one call site, which adds 1 to an index below slides.len() - 1.
saturating_add(a, b) == a + b

\* Mutant: the decrement stops one short of the first slide.
move_to_previous_slide_stops_at_one(cs) == IF cs > 1 THEN cs - 1 ELSE cs

move_to_previous_slide(cs) == saturating_sub(cs, 1)

\* Mutant: the guard against running past the last slide is missing.
move_to_next_slide_unguarded(cs, n) == saturating_add(cs, 1)

move_to_next_slide(cs, n) ==
    IF cs < n - 1 THEN saturating_add(cs, 1) ELSE cs

\* Mutant: the theme index saturates at the last theme instead of wrapping.
cycle_theme_saturating(ti) == Min(ti + 1, NumThemes - 1)

cycle_theme(ti) == (ti + 1) % NumThemes

\* self.slides[self.current_slide] and self.themes[self.current_theme_index]
\* panic when the index is out of range; render_slide evaluates both.
IndexInRange(cs, ti, n) == cs < n /\ ti < NumThemes

\* The state of main after render_slide has run on the new indices.
AfterRender(cs, ti, n) == IF IndexInRange(cs, ti, n) THEN "waiting" ELSE "panicked"

\* render_code_block not running, for the specifications of the other parts.
MergeParked ==
    /\ mLanguage = "rs"
    /\ mTokens = <<>>
    /\ mLineStart = 0
    /\ mLineLen = 0
    /\ mpc = "eol"
    /\ mPos = 0
    /\ mOut = <<>>

\* render_slide not running, for the specifications of the other parts.
SlideParked ==
    /\ sLines = <<>>
    /\ sI = 0
    /\ spc = "done"
    /\ sLog = <<>>

\* An Option<String> that is None.
None == [some |-> FALSE, value |-> <<>>]

\* render_text_centered not running, for the specifications of the other parts.
CenteredParked ==
    /\ cWidth = 0
    /\ cTextLen = 0
    /\ cpc = "done"
    /\ cPadding = [kind |-> "value", n |-> 0]

\* parse_metadata not running, for the specifications of the other parts.
MetadataParked ==
    /\ dContent = <<>>
    /\ dpc = "done"
    /\ dMetadata = [author |-> None, title |-> None, subtitle |-> None]
    /\ dBody = <<>>

\* The slide split not running, for the specifications of the other parts.
SplitParked ==
    /\ bBody = <<>>
    /\ bpc = "done"
    /\ bSlides = <<<<>>>>

\* render_progress_bar not running, for the specifications of the other parts.
ProgressParked ==
    /\ gWidth = 0
    /\ gCurrent = 0
    /\ gTotal = 1
    /\ gpc = "done"
    /\ gLength = 0
    /\ gBlank = [kind |-> "value", n |-> 0]

\* extract_prefix not running, for the specifications of the other parts.
PrefixParked ==
    /\ xInput = <<>>
    /\ xpc = "done"
    /\ xResult = [prefix |-> <<>>, rest |-> <<>>]

\* The parts that came last, all at rest.
LaterPartsParked == SplitParked /\ ProgressParked /\ PrefixParked

\* Theme::get_name of themes[ti]
ThemeNames == <<"Catppuccin Latte", "Catppuccin Mocha", "One Dark">>

get_name(ti) == ThemeNames[ti + 1]

\* A corner that shows nothing.
Blank == ""

\* The corner after render_slide: termion::clear::All wipes the screen, and
\* what render_slide then writes (the centered title in the first row among
\* it) stays clear of the corner on a terminal wide enough for it.
corner_after_render_slide(shown) == Blank

\* The corner after render_notification has written and flushed text there.
corner_after_notification(shown, text) == text

\* The corner after the blanking write of a clear task: Goto(start, 1) and
\* clear::UntilNewline.
corner_after_clear(shown) == Blank

\* What render_slide reads of the Presentation: current_slide() and
\* current_theme(), the slide and the theme at the two indices.
render_slide_from(cs, ti) == [slide |-> cs, theme |-> ti]

\* The clear tasks started so far.
clears_started(sleeping, writing, done) == sleeping + writing + done

\* Mutant: Stdout stays locked from the first write of a clear task to its flush.
stdout_locked_until_flush(writing) == writing = 0

\* Each write call locks Stdout for itself alone: between the write calls of
\* one writer, and up to its flush, another writer gets the lock.
stdout_available(writing) == TRUE

\* Mutant: a new notification takes the place of the clears that still sleep.
spawn_clear_replacing(sleeping) == 1

\* tokio::spawn(async move { clear_notification(start, 3).await; })
spawn_clear(sleeping) == sleeping + 1

NavInit ==
    /\ slides_len \in 1..MaxSlides
    /\ current_slide = 0
    /\ current_theme_index = 0
    /\ pc = "waiting"
    /\ lastKey = "none"
    /\ prevSlide = 0
    /\ prevTheme = 0
    /\ themeHist = <<0>>
    /\ corner = corner_after_render_slide(Blank)
    /\ clearsSleeping = 0
    /\ clearsWriting = 0
    /\ clearsDone = 0
    /\ prevStarted = 0
    /\ raced = FALSE
    /\ clearedSinceKey = FALSE
    /\ rendered = render_slide_from(0, 0)

\* The key loop at rest, for the specifications of the other parts.
NavParked ==
    /\ slides_len = 1
    /\ current_slide = 0
    /\ current_theme_index = 0
    /\ pc = "quit"
    /\ lastKey = "none"
    /\ prevSlide = 0
    /\ prevTheme = 0
    /\ themeHist = <<0>>
    /\ corner = Blank
    /\ clearsSleeping = 0
    /\ clearsWriting = 0
    /\ clearsDone = 0
    /\ prevStarted = 0
    /\ raced = FALSE
    /\ clearedSinceKey = FALSE
    /\ rendered = render_slide_from(0, 0)

\* The histories every key sets.
KeyHistory(key) ==
    /\ lastKey' = key
    /\ prevSlide' = current_slide
    /\ prevTheme' = current_theme_index
    /\ prevStarted' = clears_started(clearsSleeping, clearsWriting, clearsDone)
    /\ clearedSinceKey' = FALSE

\* Mutant: the slide is rendered before the arm of the key has run.
RenderAfterKey_before_arm ==
    /\ stdout_available(clearsWriting)
    /\ raced' = (clearsWriting > 0)
    /\ rendered' = render_slide_from(current_slide, current_theme_index)

\* The render_slide behind the match (main.rs:119), which reads the indices
\* as the arm of the key left them and writes whatever the clear tasks are
\* doing.
RenderAfterKey ==
    /\ stdout_available(clearsWriting)
    /\ raced' = (clearsWriting > 0)
    /\ rendered' = render_slide_from(current_slide', current_theme_index')

\* Key::Char('h')
KeyH ==
    /\ pc = "waiting"
    /\ current_slide' = move_to_previous_slide(current_slide)
    /\ pc' = AfterRender(current_slide', current_theme_index, slides_len)
    /\ corner' = corner_after_render_slide(corner)
    /\ KeyHistory("h")
    /\ UNCHANGED <<slides_len, current_theme_index, themeHist>>
    /\ UNCHANGED clearVars
    /\ RenderAfterKey
    /\ UNCHANGED nonNavVars

\* Key::Char('l')
KeyL ==
    /\ pc = "waiting"
    /\ current_slide' = move_to_next_slide(current_slide, slides_len)
    /\ pc' = AfterRender(current_slide', current_theme_index, slides_len)
    /\ corner' = corner_after_render_slide(corner)
    /\ KeyHistory("l")
    /\ UNCHANGED <<slides_len, current_theme_index, themeHist>>
    /\ UNCHANGED clearVars
    /\ RenderAfterKey
    /\ UNCHANGED nonNavVars

\* Key::Char('t'): cycle_theme, render_slide, render_notification (which
\* writes the name, flushes and spawns the clear task), then the render_slide
\* behind the match.
KeyT ==
    /\ pc = "waiting"
    /\ Len(themeHist) <= MaxCycles
    /\ current_theme_index' = cycle_theme(current_theme_index)
    /\ pc' = AfterRender(current_slide, current_theme_index', slides_len)
    /\ LET first == corner_after_render_slide(corner)
           noted == corner_after_notification(first, get_name(current_theme_index'))
       IN  corner' = corner_after_render_slide(noted)
    /\ clearsSleeping' = spawn_clear(clearsSleeping)
    /\ KeyHistory("t")
    /\ themeHist' = Append(themeHist, current_theme_index')
    /\ UNCHANGED <<slides_len, current_slide, clearsWriting, clearsDone>>
    /\ RenderAfterKey
    /\ UNCHANGED nonNavVars

\* Key::Char('q'): break, no render
KeyQ ==
    /\ pc = "waiting"
    /\ pc' = "quit"
    /\ KeyHistory("q")
    /\ UNCHANGED <<slides_len, current_slide, current_theme_index, themeHist,
                   corner, raced, rendered>>
    /\ UNCHANGED clearVars
    /\ UNCHANGED nonNavVars

\* Mutant: the catch-all arm shows a notification as the 't' arm does.
KeyOther_notifying ==
    /\ pc = "waiting"
    /\ pc' = AfterRender(current_slide, current_theme_index, slides_len)
    /\ corner' = corner_after_render_slide(corner)
    /\ clearsSleeping' = spawn_clear(clearsSleeping)
    /\ KeyHistory("other")
    /\ UNCHANGED <<slides_len, current_slide, current_theme_index, themeHist,
                   clearsWriting, clearsDone>>
    /\ RenderAfterKey
    /\ UNCHANGED nonNavVars

\* any other key: the catch-all arm, then the render
KeyOther ==
    /\ pc = "waiting"
    /\ pc' = AfterRender(current_slide, current_theme_index, slides_len)
    /\ corner' = corner_after_render_slide(corner)
    /\ KeyHistory("other")
    /\ UNCHANGED <<slides_len, current_slide, current_theme_index, themeHist>>
    /\ UNCHANGED clearVars
    /\ RenderAfterKey
    /\ UNCHANGED nonNavVars

\* clear_notification, a task of the runtime beside main: its sleep is over
\* and it writes its cursor move, the first piece of its write!.
ClearBegin ==
    /\ pc = "waiting"
    /\ clearsSleeping > 0
    /\ stdout_available(clearsWriting)
    /\ clearsSleeping' = clearsSleeping - 1
    /\ clearsWriting' = clearsWriting + 1
    /\ UNCHANGED <<slides_len, current_slide, current_theme_index, pc, lastKey,
                   prevSlide, prevTheme, themeHist, corner, clearsDone,
                   prevStarted, raced, clearedSinceKey, rendered>>
    /\ UNCHANGED nonNavVars

\* clear_notification writes clear::UntilNewline and cursor::Hide and flushes.
ClearEnd ==
    /\ pc = "waiting"
    /\ clearsWriting > 0
    /\ clearsWriting' = clearsWriting - 1
    /\ clearsDone' = clearsDone + 1
    /\ corner' = corner_after_clear(corner)
    /\ clearedSinceKey' = TRUE
    /\ UNCHANGED <<slides_len, current_slide, current_theme_index, pc, lastKey,
                   prevSlide, prevTheme, themeHist, clearsSleeping,
                   prevStarted, raced, rendered>>
    /\ UNCHANGED nonNavVars

NavNext == KeyH \/ KeyL \/ KeyT \/ KeyQ \/ KeyOther \/ ClearBegin \/ ClearEnd

InitNav ==
    /\ NavInit
    /\ MergeParked /\ SlideParked /\ CenteredParked /\ MetadataParked
    /\ LaterPartsParked

SpecNav == InitNav /\ [][NavNext]_vars

\* The runtime runs every task it was given: a clear task that can take its
\* next step is not put off forever.
SpecNavFair == SpecNav /\ WF_vars(ClearBegin) /\ WF_vars(ClearEnd)

(***************************************************************************)
(* Claims about Presentation and the key loop                              *)
(***************************************************************************)

\* C1: in every reachable state the slide index is in [0, N-1] and the theme
\* index is in [0, T-1], so that current_slide() and current_theme(), which
\* every render evaluates, never index out of range.
C1_IndicesInRange ==
    /\ current_slide \in 0..(slides_len - 1)
    /\ current_theme_index \in 0..(NumThemes - 1)
    /\ pc # "panicked"

\* 'l' was pressed on the last of several slides after the themes wrapped.
C1_Witness ==
    /\ pc = "waiting"
    /\ lastKey = "l"
    /\ slides_len > 1
    /\ prevSlide = slides_len - 1
    /\ Len(themeHist) > NumThemes

\* C2: move_to_next_slide takes index i to min(i+1, N-1) and
\* move_to_previous_slide takes it to max(i-1, 0); neither faults.
C2_NextPrevClamp ==
    /\ lastKey = "l" => /\ current_slide = Min(prevSlide + 1, slides_len - 1)
                        /\ pc = "waiting"
    /\ lastKey = "h" => /\ current_slide = Max(prevSlide - 1, 0)
                        /\ pc = "waiting"

\* 'h' was pressed on the first of several slides and the index stayed 0.
C2_Witness ==
    /\ lastKey = "h"
    /\ slides_len > 1
    /\ prevSlide = 0
    /\ current_slide = 0

\* C3: cycle_theme sets theme_index to (theme_index + 1) mod T; from any
\* point of the run, T calls of cycle_theme, with next/prev calls in
\* between, return to the theme of that point and fewer than T never do.
C3_ThemeCycle ==
    /\ lastKey = "t" => current_theme_index = (prevTheme + 1) % NumThemes
    /\ \A k \in 1..Len(themeHist) : \A d \in 1..NumThemes :
          k + d <= Len(themeHist) =>
              ((themeHist[k + d] = themeHist[k]) <=> (d = NumThemes))

\* More than two full cycles were made, with slide moves in between.
C3_Witness ==
    /\ Len(themeHist) > 2 * NumThemes
    /\ lastKey = "l"
    /\ current_slide > 0
    /\ themeHist[Len(themeHist)] = themeHist[Len(themeHist) - NumThemes]

\* C12: when a 't' has been handled and main waits for the next key, the
\* corner shows the name of the new theme, and goes on showing it until a
\* clear task writes or another key is handled: no render made while that
\* 't' was handled has wiped it.
C12_NotificationStays ==
    (pc = "waiting" /\ lastKey = "t" /\ ~clearedSinceKey) =>
        corner = get_name(current_theme_index)

\* The clear tasks started so far.
Started == clears_started(clearsSleeping, clearsWriting, clearsDone)

\* A key whose handler ends with the render behind the match.
RenderingKey == KeyH \/ KeyL \/ KeyT \/ KeyOther

C14_RenderNotExcluded ==
    (pc = "waiting" /\ clearsWriting > 0) => ENABLED RenderingKey

\* The render of the last key wrote while a clear task was mid-write, and
\* the task has not flushed yet.
C14_Witness ==
    /\ pc = "waiting"
    /\ lastKey \in {"h", "l"}
    /\ raced
    /\ ~clearedSinceKey
    /\ clearsWriting > 0

\* C17: 'h' and 'l' leave the theme index as it was, 't' leaves the slide
\* index as it was, 'q' ends the loop and leaves both, and any other key
\* leaves both and starts no notification.
C17_KeysKeepToTheirComponent ==
    /\ lastKey \in {"h", "l"} => current_theme_index = prevTheme
    /\ lastKey = "t" => current_slide = prevSlide
    /\ lastKey = "q" => /\ pc = "quit"
                        /\ current_slide = prevSlide
                        /\ current_theme_index = prevTheme
    /\ lastKey = "other" => /\ current_slide = prevSlide
                            /\ current_theme_index = prevTheme
                            /\ Started = prevStarted
                            /\ corner = Blank

\* Another key was handled on a later slide, in a later theme, with a clear
\* task of an earlier notification still asleep.
C17_Witness ==
    /\ pc = "waiting"
    /\ lastKey = "other"
    /\ current_slide > 0
    /\ current_theme_index > 0
    /\ clearsSleeping > 0

\* C22: whenever main waits for the next key, the last render_slide was
\* made from the slide index and the theme index as they are: every key but
\* 'q' is followed by a render behind its change of the indices, and the
\* indices do not change behind that render.
C22_RenderIsCurrent ==
    /\ pc = "waiting" =>
           rendered = [slide |-> current_slide, theme |-> current_theme_index]
    /\ lastKey = "q" => rendered = [slide |-> prevSlide, theme |-> prevTheme]

\* 'l' moved to a later slide after the theme had been changed, and the
\* render shows both.
C22_Witness ==
    /\ pc = "waiting"
    /\ lastKey = "l"
    /\ current_slide = prevSlide + 1
    /\ current_theme_index > 0
    /\ rendered = [slide |-> current_slide, theme |-> current_theme_index]

(***************************************************************************)
(* render_code_block (src/src/rendering.rs): the merge of the syntax       *)
(* tokens onto one line of the block's content.                            *)
(*                                                                         *)
(* The bytes of the line are named by their positions 0 .. len-1, so the   *)
(* text written is a sequence of segments [from, to) of positions, each    *)
(* with the kind whose color it was written in ("none": no color escape).  *)
(* A SyntaxToken is [kind, start, end] with byte offsets into the whole    *)
(* content; the kind of the i-th capture of the query is written "i", so   *)
(* that the colors of different captures can be told apart.                *)
(***************************************************************************)
\* node.start_byte() <= node.end_byte(), both at most max.
Spans(max) == {sp \in (0..max) \X (0..max) : sp[1] <= sp[2]}

\* The captures in the order the query yields them (tokens.push), with the
\* spans f gives them.
RawTokens(n, f) ==
    [i \in 1..n |-> [kind |-> ToString(i), start |-> f[i][1], end |-> f[i][2]]]

\* The place of t in a list sorted by start: behind every token that does not
\* start later (the sort is stable).
RECURSIVE InsertByStart(_, _)
InsertByStart(t, sorted) ==
    IF sorted = <<>> THEN <<t>>
    ELSE IF Head(sorted).start <= t.start
         THEN <<Head(sorted)>> \o InsertByStart(t, Tail(sorted))
         ELSE <<t>> \o sorted

\* tokens.sort_by_key(|t| t.start)
RECURSIVE sort_by_start(_)
sort_by_start(toks) ==
    IF toks = <<>> THEN <<>>
    ELSE InsertByStart(toks[Len(toks)], sort_by_start(SubSeq(toks, 1, Len(toks) - 1)))

\* The three tags with a grammar and a query; any other tag has none.
get_language_config(lang) ==
    IF lang \in {"rust", "java", "python"}
    THEN [some |-> TRUE, language |-> lang]
    ELSE [some |-> FALSE, language |-> ""]

\* parse_syntax: the captures of the query, sorted, when the language has a
\* configuration, and no token when it has none.
parse_syntax(lang, captures) ==
    IF get_language_config(lang).some THEN sort_by_start(captures) ELSE <<>>

\* The tags of the model: one with a configuration, one without.
LanguagePool == {"rust", "rs"}

\* Mutant: the tokens of the whole block are taken for every line.
line_tokens_unfiltered(toks, ls, len) == toks

\* tokens.iter().filter(|t| t.start >= line_start && t.start < line_end)
line_tokens(toks, ls, len) ==
    SelectSeq(toks, LAMBDA t : t.start >= ls /\ t.start < ls + len)

\* std::cmp::min(token.end - line_start, line.len())
token_end_in_line(t, ls, len) == Min(t.end - ls, len)

\* First pass: the positions of the line some token of the line covers.
colored_positions(toks, ls, len) ==
    [pos \in 0..(len - 1) |->
        \E k \in 1..Len(line_tokens(toks, ls, len)) :
            LET t == line_tokens(toks, ls, len)[k]
            IN  t.start - ls <= pos /\ pos < token_end_in_line(t, ls, len)]

\* The inner loop of the uncolored branch: the next colored position, or len.
RECURSIVE uncolored_end(_, _, _)
uncolored_end(colored, end_pos, len) ==
    IF end_pos < len /\ ~colored[end_pos]
    THEN uncolored_end(colored, end_pos + 1, len)
    ELSE end_pos

\* line_tokens.iter().find(|t| (t.start - line_start) == current_pos):
\* the indices of the candidates; find takes the first.
starting_at(ltoks, ls, cp) == {k \in 1..Len(ltoks) : ltoks[k].start - ls = cp}

find_token(ltoks, ls, cp) ==
    ltoks[CHOOSE k \in starting_at(ltoks, ls, cp) :
              \A j \in starting_at(ltoks, ls, cp) : k <= j]

\* write!(stdout, ..., &line[from..to], ...): an empty slice writes no text.
Emit(out, from, to, kind) ==
    IF from < to THEN Append(out, [from |-> from, to |-> to, color |-> kind])
    ELSE out

\* One iteration of "while current_pos < line.len()": the new current_pos
\* and the text written so far.
walk_step(toks, ls, len, cp, out) ==
    LET ltoks == line_tokens(toks, ls, len)
        colored == colored_positions(toks, ls, len)
    IN  IF ~colored[cp]
        THEN LET end_pos == uncolored_end(colored, cp + 1, len)
             IN  [pos |-> end_pos, out |-> Emit(out, cp, end_pos, "none")]
        ELSE IF starting_at(ltoks, ls, cp) # {}
        THEN LET token == find_token(ltoks, ls, cp)
                 te == token_end_in_line(token, ls, len)
             IN  [pos |-> te, out |-> Emit(out, cp, te, token.kind)]
        ELSE [pos |-> cp + 1, out |-> out]

\* The second pass run to its end from current_pos = cp, as a function (it
\* is defined where the loop terminates).
RECURSIVE walk_from(_, _, _, _, _)
walk_from(toks, ls, len, cp, out) ==
    IF cp >= len THEN out
    ELSE walk_from(toks, ls, len,
                   walk_step(toks, ls, len, cp, out).pos,
                   walk_step(toks, ls, len, cp, out).out)

\* The text written for a line: the body of the loop over the lines.
render_line(toks, ls, len) ==
    IF line_tokens(toks, ls, len) = <<>>
    THEN Emit(<<>>, 0, len, "none")
    ELSE walk_from(toks, ls, len, 0, <<>>)

\* The offsets of the tokens run up to one past the end of the line; the
\* query is run, and yields captures, only for a language with a configuration.
MergeInit ==
    /\ mLanguage \in LanguagePool
    /\ mLineStart \in 0..MaxLineStart
    /\ mLineLen \in 0..MaxLineLen
    /\ \E n \in 0..(IF get_language_config(mLanguage).some THEN MaxTokens ELSE 0) :
          \E f \in [1..n -> Spans(mLineStart + mLineLen + 1)] :
              mTokens = parse_syntax(mLanguage, RawTokens(n, f))
    /\ mpc = "line"
    /\ mPos = 0
    /\ mOut = <<>>

\* line_tokens.is_empty(): the line is written as it is.
LinePlain ==
    /\ mpc = "line"
    /\ line_tokens(mTokens, mLineStart, mLineLen) = <<>>
    /\ mOut' = Emit(<<>>, 0, mLineLen, "none")
    /\ mpc' = "eol"
    /\ UNCHANGED <<mLanguage, mTokens, mLineStart, mLineLen, mPos>>
    /\ UNCHANGED nonMergeVars

\* Otherwise the first pass marks the positions and the second pass starts.
LineMarked ==
    /\ mpc = "line"
    /\ line_tokens(mTokens, mLineStart, mLineLen) # <<>>
    /\ mPos' = 0
    /\ mpc' = "walk"
    /\ UNCHANGED <<mLanguage, mTokens, mLineStart, mLineLen, mOut>>
    /\ UNCHANGED nonMergeVars

\* "if !colored_positions[current_pos]": write the uncolored run.
WalkUncolored ==
    /\ mpc = "walk"
    /\ mPos < mLineLen
    /\ ~colored_positions(mTokens, mLineStart, mLineLen)[mPos]
    /\ mPos' = walk_step(mTokens, mLineStart, mLineLen, mPos, mOut).pos
    /\ mOut' = walk_step(mTokens, mLineStart, mLineLen, mPos, mOut).out
    /\ UNCHANGED <<mLanguage, mTokens, mLineStart, mLineLen, mpc>>
    /\ UNCHANGED nonMergeVars

\* "if let Some(token) = ...find(...)": write the token's text in its color.
WalkToken ==
    /\ mpc = "walk"
    /\ mPos < mLineLen
    /\ colored_positions(mTokens, mLineStart, mLineLen)[mPos]
    /\ starting_at(line_tokens(mTokens, mLineStart, mLineLen), mLineStart, mPos) # {}
    /\ mPos' = walk_step(mTokens, mLineStart, mLineLen, mPos, mOut).pos
    /\ mOut' = walk_step(mTokens, mLineStart, mLineLen, mPos, mOut).out
    /\ UNCHANGED <<mLanguage, mTokens, mLineStart, mLineLen, mpc>>
    /\ UNCHANGED nonMergeVars

\* "else": no token starts here, current_pos += 1.
WalkSkip ==
    /\ mpc = "walk"
    /\ mPos < mLineLen
    /\ colored_positions(mTokens, mLineStart, mLineLen)[mPos]
    /\ starting_at(line_tokens(mTokens, mLineStart, mLineLen), mLineStart, mPos) = {}
    /\ mPos' = walk_step(mTokens, mLineStart, mLineLen, mPos, mOut).pos
    /\ mOut' = walk_step(mTokens, mLineStart, mLineLen, mPos, mOut).out
    /\ UNCHANGED <<mLanguage, mTokens, mLineStart, mLineLen, mpc>>
    /\ UNCHANGED nonMergeVars

\* The while loop ends: current_pos >= line.len().
WalkEnd ==
    /\ mpc = "walk"
    /\ mPos >= mLineLen
    /\ mpc' = "eol"
    /\ UNCHANGED <<mLanguage, mTokens, mLineStart, mLineLen, mPos, mOut>>
    /\ UNCHANGED nonMergeVars

MergeNext == LinePlain \/ LineMarked \/ WalkUncolored \/ WalkToken \/ WalkSkip \/ WalkEnd

InitMerge ==
    /\ MergeInit
    /\ NavParked /\ SlideParked /\ CenteredParked /\ MetadataParked
    /\ LaterPartsParked

SpecMerge == InitMerge /\ [][MergeNext]_vars


(***************************************************************************)
(* Claims about the token merge                                            *)
(***************************************************************************)
\* The positions of the bytes written, in the order they were written.
RECURSIVE EmittedBytes(_)
EmittedBytes(out) ==
    IF out = <<>> THEN <<>>
    ELSE [k \in 1..(Head(out).to - Head(out).from) |-> Head(out).from + k - 1]
         \o EmittedBytes(Tail(out))

\* The bytes of the line, in order.
LineBytes(len) == [k \in 1..len |-> k - 1]

\* C4: for every token set the merge writes every byte of the line exactly
\* once and in order: the segments written, concatenated, are the line.
C4_EveryByteOnce ==
    mpc = "eol" => EmittedBytes(mOut) = LineBytes(mLineLen)

\* A token that is empty, or that starts at or past the end of the line.
IsDegenerate(t, ls, len) == t.start = t.end \/ t.start >= ls + len

WithoutDegenerate(toks, ls, len) ==
    SelectSeq(toks, LAMBDA t : ~IsDegenerate(t, ls, len))

\* C5: with zero-length tokens and tokens past the end of the line in the
\* token set, every iteration of the merge loop moves on (so the loop
\* terminates: an empty token at a covered byte does not stall the walk),
\* and the text written is that of the token set without those tokens.
C5_DegenerateTokensSkipped ==
    /\ (mpc = "walk" /\ mPos < mLineLen) =>
           walk_step(mTokens, mLineStart, mLineLen, mPos, mOut).pos > mPos
    /\ mpc = "eol" =>
           mOut = render_line(WithoutDegenerate(mTokens, mLineStart, mLineLen),
                              mLineStart, mLineLen)

\* The line written as it is, in one piece and without a color.
Verbatim(len) == Emit(<<>>, 0, len, "none")

\* C18: a language without a configuration gives no token and never an error
\* path, and every line in which no token starts, so every line of a block
\* in such a language, is written verbatim, without a color escape.
C18_NoTokenLineVerbatim ==
    /\ ~get_language_config(mLanguage).some =>
           /\ mTokens = <<>>
           /\ mpc \in {"line", "eol"}
    /\ (mpc = "eol" /\ \A k \in 1..Len(mTokens) :
                           ~(mTokens[k].start >= mLineStart
                             /\ mTokens[k].start < mLineStart + mLineLen)) =>
           mOut = Verbatim(mLineLen)

\* A line of three bytes of a block tagged "rs" was written.
C18_Witness ==
    /\ mLanguage = "rs"
    /\ mpc = "eol"
    /\ mLineLen = 3
    /\ mOut = <<[from |-> 0, to |-> 3, color |-> "none"]>>

\* The tokens whose span [start, end) holds the byte at position pos of the
\* line, by their indices in the sorted list.
Covering(toks, ls, pos) ==
    {k \in 1..Len(toks) : toks[k].start <= ls + pos /\ ls + pos < toks[k].end}

\* The colors the byte at position pos was written in, one for each time it
\* was written.
ColorsOf(out, pos) ==
    [k \in {j \in 1..Len(out) : out[j].from <= pos /\ pos < out[j].to} |->
        out[k].color]

\* C21: every byte of the line inside the span of some token is written in
\* the color of the first token of the sorted list that covers it (the one
\* of least start, the earlier capture among equals), tokens that began on
\* an earlier line and tails of overlapping tokens included; a byte that no
\* token covers is written without a color.
C21_CoveredBytesColored ==
    mpc = "eol" =>
        \A pos \in 0..(mLineLen - 1) :
            LET cover == Covering(mTokens, mLineStart, pos)
                colors == ColorsOf(mOut, pos)
            IN  /\ Cardinality(DOMAIN colors) = 1
                /\ \A k \in DOMAIN colors :
                      colors[k] =
                          IF cover = {} THEN "none"
                          ELSE mTokens[CHOOSE c \in cover :
                                           \A d \in cover : c <= d].kind

(***************************************************************************)
(* render_slide (src/src/rendering.rs): the loop over the lines of the     *)
(* current slide.  A string is a sequence of one-character strings; the    *)
(* cursor i counts from 0 as in the code, so lines[i] is sLines[i + 1].    *)
(***************************************************************************)
NL == "\n"

\* The backquote character, which a TLA+ string cannot hold.
Tick == "tick"

\* The fence marker: three backquotes.
Fence == <<Tick, Tick, Tick>>

\* The lines a slide is made of in this model: blank, a bare fence, a fence
\* with a language tag, plain text, a heading, a run of five '#', an image.
LinePool ==
    { <<>>,
      Fence,
      Fence \o <<"r", "s">>,
      <<"a">>,
      <<"#", "#", " ", "T">>,
      <<"#", "#", "#", "#", "#", " ", "T">>,
      <<"!", "[", "x", "]", "(", "p", ")">> }

\* str::starts_with, str::ends_with, str::contains, str::find
starts_with(str, pat) ==
    Len(str) >= Len(pat) /\ SubSeq(str, 1, Len(pat)) = pat

ends_with(str, pat) ==
    Len(str) >= Len(pat) /\ SubSeq(str, Len(str) - Len(pat) + 1, Len(str)) = pat

matches_at(str, pat, k) ==
    k + Len(pat) <= Len(str) /\ SubSeq(str, k + 1, k + Len(pat)) = pat

contains(str, pat) == \E k \in 0..Len(str) : matches_at(str, pat, k)

\* The byte offset of the first match (the caller has checked contains).
find(str, pat) ==
    CHOOSE k \in 0..Len(str) :
        matches_at(str, pat, k) /\ \A j \in 0..(k - 1) : ~matches_at(str, pat, j)

\* str::trim_start_matches(c)
RECURSIVE trim_start_matches(_, _)
trim_start_matches(str, c) ==
    IF str # <<>> /\ Head(str) = c THEN trim_start_matches(Tail(str), c) ELSE str

\* str::trim_start and str::trim, over the white space of the model: ' '.
trim_start(str) == trim_start_matches(str, " ")

RECURSIVE trim_end(_)
trim_end(str) ==
    IF str # <<>> /\ str[Len(str)] = " "
    THEN trim_end(SubSeq(str, 1, Len(str) - 1)) ELSE str

trim(str) == trim_end(trim_start(str))

\* s.chars().take_while(|c| *c == '#')
RECURSIVE take_while_hash(_)
take_while_hash(str) ==
    IF str # <<>> /\ Head(str) = "#" THEN <<"#">> \o take_while_hash(Tail(str))
    ELSE <<>>

\* Mutant: the rest is trimmed at both ends.
extract_prefix_trimmed(str) ==
    [prefix |-> take_while_hash(str), rest |-> trim(trim_start_matches(str, "#"))]

extract_prefix(str) ==
    [prefix |-> take_while_hash(str), rest |-> trim_start(trim_start_matches(str, "#"))]

\* Header::header_by_prefix: Some(Header1..Header4) for "#" .. "####".
header_by_prefix(prefix) ==
    IF Len(prefix) \in 1..4 /\ prefix = [k \in 1..Len(prefix) |-> "#"]
    THEN [some |-> TRUE, level |-> Len(prefix)]
    ELSE [some |-> FALSE, level |-> 0]

extract_image_path(line) ==
    IF starts_with(line, <<"!", "[">>) /\ contains(line, <<"]", "(">>)
       /\ ends_with(line, <<")">>)
    THEN [some |-> TRUE,
          path |-> SubSeq(line, find(line, <<"]", "(">>) + 2 + 1, Len(line) - 1)]
    ELSE [some |-> FALSE, path |-> <<>>]

\* [&str]::join("\n")
RECURSIVE join(_)
join(lines) ==
    IF lines = <<>> THEN <<>>
    ELSE IF Len(lines) = 1 THEN lines[1]
    ELSE lines[1] \o <<NL>> \o join(Tail(lines))

\* The pieces between the line feeds of a text: one more than its line feeds.
RECURSIVE split_nl(_, _)
split_nl(text, piece) ==
    IF text = <<>> THEN <<piece>>
    ELSE IF Head(text) = NL THEN <<piece>> \o split_nl(Tail(text), <<>>)
    ELSE split_nl(Tail(text), Append(piece, Head(text)))

\* str::lines: the text split at its line feeds, the last line's line feed
\* being optional (the model's texts have no carriage return).
str_lines(text) ==
    LET pieces == split_nl(text, <<>>)
    IN  IF pieces[Len(pieces)] = <<>>
        THEN SubSeq(pieces, 1, Len(pieces) - 1)
        ELSE pieces

\* .take_while(|line| !line.starts_with(fence))
RECURSIVE take_while_not_fence(_)
take_while_not_fence(lines) ==
    IF lines # <<>> /\ ~starts_with(Head(lines), Fence)
    THEN <<Head(lines)>> \o take_while_not_fence(Tail(lines))
    ELSE <<>>

\* CodeBlock::parse
CodeBlock_parse(text) ==
    LET lines == str_lines(text)
    IN  IF lines = <<>> \/ ~starts_with(lines[1], Fence)
        THEN [some |-> FALSE, language |-> <<>>, content |-> <<>>]
        ELSE [some |-> TRUE,
              language |-> trim(trim_start_matches(lines[1], Tick)),
              content |-> join(take_while_not_fence(Tail(lines)))]

\* The cursor after the fence branch: i += code_block.content.lines().count() + 2
\* when the block parses, and i as it was when it does not.
fence_advance(lines, i) ==
    LET code_block == CodeBlock_parse(join(SubSeq(lines, i + 1, Len(lines))))
    IN  IF code_block.some
        THEN i + Len(str_lines(code_block.content)) + 2
        ELSE i

SlideInit ==
    /\ sLines \in UNION {[1..n -> LinePool] : n \in 0..MaxSlideLines}
    /\ sI = 0
    /\ spc = "loop"
    /\ sLog = <<>>

\* The log keeps one entry for an iteration repeated at the same cursor.
Logged(log, entry) ==
    IF log # <<>> /\ log[Len(log)] = entry THEN log ELSE Append(log, entry)

\* An image line whose file exists: render_image prints it; the branch leaves
\* the cursor where it is.
LoopImage ==
    /\ spc = "loop"
    /\ sI < Len(sLines)
    /\ extract_image_path(sLines[sI + 1]).some
    /\ sLog' = Logged(sLog, [at |-> sI, kind |-> "image", next |-> sI,
                             text |-> extract_image_path(sLines[sI + 1]).path])
    /\ UNCHANGED <<sLines, sI, spc>>
    /\ UNCHANGED nonSlideVars

\* An image line whose file does not exist: render_image exits the process.
LoopImageMissing ==
    /\ spc = "loop"
    /\ sI < Len(sLines)
    /\ extract_image_path(sLines[sI + 1]).some
    /\ spc' = "exited"
    /\ UNCHANGED <<sLines, sI, sLog>>
    /\ UNCHANGED nonSlideVars

\* A line that starts with a fence: the code block is parsed from the rest
\* of the slide and rendered, and the cursor skips it.
LoopFence ==
    /\ spc = "loop"
    /\ sI < Len(sLines)
    /\ ~extract_image_path(sLines[sI + 1]).some
    /\ starts_with(sLines[sI + 1], Fence)
    /\ sI' = fence_advance(sLines, sI)
    /\ sLog' = LET code_block == CodeBlock_parse(join(SubSeq(sLines, sI + 1, Len(sLines))))
               IN  IF code_block.some
                   THEN Logged(sLog, [at |-> sI, kind |-> "code", next |-> sI',
                                      text |-> code_block.content])
                   ELSE sLog
    /\ UNCHANGED <<sLines, spc>>
    /\ UNCHANGED nonSlideVars

\* A line that starts with '#': header_by_prefix(..).unwrap() panics on None.
LoopHeading ==
    /\ spc = "loop"
    /\ sI < Len(sLines)
    /\ ~extract_image_path(sLines[sI + 1]).some
    /\ ~starts_with(sLines[sI + 1], Fence)
    /\ starts_with(sLines[sI + 1], <<"#">>)
    /\ IF header_by_prefix(extract_prefix(sLines[sI + 1]).prefix).some
       THEN /\ sI' = sI + 1
            /\ sLog' = Logged(sLog, [at |-> sI, kind |-> "heading", next |-> sI',
                                     text |-> extract_prefix(sLines[sI + 1]).rest])
            /\ spc' = spc
       ELSE /\ spc' = "panicked"
            /\ UNCHANGED <<sI, sLog>>
    /\ UNCHANGED sLines
    /\ UNCHANGED nonSlideVars

\* Any other line is written as it is.
LoopPlain ==
    /\ spc = "loop"
    /\ sI < Len(sLines)
    /\ ~extract_image_path(sLines[sI + 1]).some
    /\ ~starts_with(sLines[sI + 1], Fence)
    /\ ~starts_with(sLines[sI + 1], <<"#">>)
    /\ sI' = sI + 1
    /\ sLog' = Logged(sLog, [at |-> sI, kind |-> "plain", next |-> sI',
                             text |-> sLines[sI + 1]])
    /\ UNCHANGED <<sLines, spc>>
    /\ UNCHANGED nonSlideVars

\* The loop ends: render_footer and the flush.
LoopEnd ==
    /\ spc = "loop"
    /\ sI >= Len(sLines)
    /\ spc' = "done"
    /\ UNCHANGED <<sLines, sI, sLog>>
    /\ UNCHANGED nonSlideVars

SlideNext ==
    LoopImage \/ LoopImageMissing \/ LoopFence \/ LoopHeading \/ LoopPlain \/ LoopEnd

InitSlide ==
    /\ SlideInit
    /\ NavParked /\ MergeParked /\ CenteredParked /\ MetadataParked
    /\ LaterPartsParked

SpecSlide == InitSlide /\ [][SlideNext]_vars

(***************************************************************************)
(* Claims about the line loop                                              *)
(***************************************************************************)
\* C6: a line that begins with five or more '#' is rendered as plain text,
\* the loop going on with the next line; rendering never panics on a line
\* that looks like a heading.
C6_LongHashRunIsPlainText ==
    /\ spc # "panicked"
    /\ \A k \in 1..Len(sLog) :
          Len(take_while_hash(sLines[sLog[k].at + 1])) >= 5 =>
              /\ sLog[k].kind = "plain"
              /\ sLog[k].text = sLines[sLog[k].at + 1]
              /\ sLog[k].next = sLog[k].at + 1

\* The index of the first fence line after line i, or Len(lines) if none.
closing_fence(lines, i) ==
    i + 1 + Len(take_while_not_fence(SubSeq(lines, i + 2, Len(lines))))

\* C8: for a fence opener at line i with a closing fence at line j > i, the
\* block's content is the lines i+1 .. j-1, blank ones included, and the
\* cursor resumes at j+1; no later iteration classifies a line of i+1 .. j.
C8_FenceSkipsBlock ==
    \A k \in 1..Len(sLog) :
        LET i == sLog[k].at
            j == closing_fence(sLines, i)
        IN  (sLog[k].kind = "code" /\ j < Len(sLines)) =>
                /\ sLog[k].text = join(SubSeq(sLines, i + 2, j))
                /\ sLog[k].next = j + 1
                /\ \A m \in (k + 1)..Len(sLog) : sLog[m].at > j

\* C20: the loop over the lines terminates: every iteration, whichever
\* branch it takes, leaves the line cursor further on than it found it.
C20_EveryIterationAdvances ==
    \A k \in 1..Len(sLog) : sLog[k].next > sLog[k].at

(***************************************************************************)
(* render_text_centered (src/src/rendering.rs)                             *)
(*                                                                         *)
(* padding is a usize.  A value that fits is [kind |-> "value", n |-> v];  *)
(* the result of a subtraction that wrapped, 2^64 - n, and its half are    *)
(* beyond the integers of the model checker and are written                *)
(* [kind |-> "wrapped", n |-> n].                                          *)
(***************************************************************************)
\* a - b on usize: with overflow checks (a debug build) the subtraction
\* panics when b > a, without them (a release build) it wraps.
usize_sub(a, b, overflow_checks) ==
    IF a >= b THEN [kind |-> "value", n |-> a - b]
    ELSE IF overflow_checks THEN [kind |-> "panic", n |-> b - a]
    ELSE [kind |-> "wrapped", n |-> b - a]

\* x / 2 on usize; (2^64 - n) / 2 stays out of range for the small n of the model.
usize_half(x) ==
    IF x.kind = "value" THEN [kind |-> "value", n |-> x.n \div 2] ELSE x

\* let padding = (width as usize - text.len()) / 2;
centered_padding(width, len, overflow_checks) ==
    usize_half(usize_sub(width, len, overflow_checks))

\* " ".repeat(padding) allocates padding bytes: a wrapped padding, of at
\* least 2^62 bytes, ends in a capacity overflow or a failed allocation.
after_repeat(padding) ==
    CASE padding.kind = "value" -> "done"
      [] padding.kind = "panic" -> "panicked"
      [] padding.kind = "wrapped" -> "aborted"

CenteredInit ==
    /\ cWidth \in 0..MaxWidth
    /\ cTextLen \in 0..MaxTextLen
    /\ cpc = "call"
    /\ cPadding = [kind |-> "value", n |-> 0]

\* render_text_centered in a build with overflow checks
RenderTextCenteredChecked ==
    /\ cpc = "call"
    /\ cPadding' = centered_padding(cWidth, cTextLen, TRUE)
    /\ cpc' = after_repeat(cPadding')
    /\ UNCHANGED <<cWidth, cTextLen>>
    /\ UNCHANGED nonCenteredVars

\* render_text_centered in a build without overflow checks
RenderTextCenteredWrapping ==
    /\ cpc = "call"
    /\ cPadding' = centered_padding(cWidth, cTextLen, FALSE)
    /\ cpc' = after_repeat(cPadding')
    /\ UNCHANGED <<cWidth, cTextLen>>
    /\ UNCHANGED nonCenteredVars

CenteredNext == RenderTextCenteredChecked \/ RenderTextCenteredWrapping

InitCentered ==
    /\ CenteredInit
    /\ NavParked /\ MergeParked /\ SlideParked /\ MetadataParked
    /\ LaterPartsParked

SpecCentered == InitCentered /\ [][CenteredNext]_vars

(***************************************************************************)
(* Claims about the centering                                              *)
(***************************************************************************)
\* C7: for every text and every terminal width the padding computed is
\* floor((width - len) / 2) when len <= width and 0 when len > width; the
\* subtraction never underflows and the call never faults.
C7_PaddingClamped ==
    cpc # "call" =>
        /\ cpc = "done"
        /\ cPadding = [kind |-> "value",
                       n |-> IF cTextLen <= cWidth
                             THEN (cWidth - cTextLen) \div 2 ELSE 0]

(***************************************************************************)
(* parse_metadata (src/src/main.rs)                                        *)
(*                                                                         *)
(* The text of the file is a sequence of atoms: NL, the words "author",    *)
(* "title" and "subtitle", the separator ": " that follows a key, the      *)
(* marker "---", a space and a few other words.  Both regular expressions  *)
(* are run over that sequence.                                             *)
(***************************************************************************)
Dashes == "---"
KeySep == ": "

\* The alternation (author|title|subtitle) of the first expression.
MetadataKeys == {"author", "title", "subtitle"}

\* The lines a file is made of in this model: the marker, a title, an author
\* with a space behind the value, a second title behind other text, plain
\* text.
DocLinePool ==
    { <<Dashes>>,
      <<"title", KeySep, "A">>,
      <<"author", KeySep, "B", " ">>,
      <<"x", "title", KeySep, "C">>,
      <<"body">> }

\* The offset of the first NL at or after offset p, or Len(text) if none.
RECURSIVE next_nl(_, _)
next_nl(text, p) ==
    IF p >= Len(text) \/ text[p + 1] = NL THEN p ELSE next_nl(text, p + 1)

\* (author|title|subtitle): (.*?)\n matches at offset p: a key, the
\* separator, then the characters up to the first NL, which must be there.
key_matches_at(text, p) ==
    /\ p + 2 <= Len(text)
    /\ text[p + 1] \in MetadataKeys
    /\ text[p + 2] = KeySep
    /\ next_nl(text, p + 2) < Len(text)

\* re.captures_iter(content) from offset p on, applied to the Metadata so
\* far: the matches are taken from left to right without overlap, and each
\* assigns cap[2].trim() to the field that cap[1] names.
RECURSIVE captures_from(_, _, _)
captures_from(text, p, metadata) ==
    IF p >= Len(text) THEN metadata
    ELSE IF key_matches_at(text, p)
    THEN LET q == next_nl(text, p + 2)
             value == trim(SubSeq(text, p + 3, q))
         IN  captures_from(text, q + 1,
                 [metadata EXCEPT ![text[p + 1]] = [some |-> TRUE, value |-> value]])
    ELSE captures_from(text, p + 1, metadata)

\* (?s)^---\n.*\n---\n: the offsets at which the closing \n---\n may start,
\* behind the opening ---\n.
closing_offsets(text) ==
    {k \in 2..Len(text) : matches_at(text, <<NL, Dashes, NL>>, k)}

front_matter_matches(text) ==
    starts_with(text, <<Dashes, NL>>) /\ closing_offsets(text) # {}

\* .replace(content, ""): the match starts at offset 0 and, .* being greedy,
\* ends with the last closing \n---\n; the text behind it is kept.
strip_front_matter(text) ==
    IF front_matter_matches(text)
    THEN LET k == CHOOSE k \in closing_offsets(text) :
                      \A j \in closing_offsets(text) : j <= k
         IN  SubSeq(text, k + 3 + 1, Len(text))
    ELSE text

parse_metadata(content) ==
    [metadata |-> captures_from(content, 0,
                      [author |-> None, title |-> None, subtitle |-> None]),
     body |-> strip_front_matter(content)]

\* The text of a file with these lines, the last one with or without its
\* line feed.
DocText(lines, final_nl) ==
    IF final_nl THEN join(lines) \o <<NL>> ELSE join(lines)

MetadataInit ==
    /\ \E n \in 0..MaxDocLines : \E lines \in [1..n -> DocLinePool] :
          \E final_nl \in BOOLEAN : dContent = DocText(lines, final_nl)
    /\ dpc = "call"
    /\ dMetadata = [author |-> None, title |-> None, subtitle |-> None]
    /\ dBody = <<>>

ParseMetadata ==
    /\ dpc = "call"
    /\ dMetadata' = parse_metadata(dContent).metadata
    /\ dBody' = parse_metadata(dContent).body
    /\ dpc' = "done"
    /\ UNCHANGED dContent
    /\ UNCHANGED nonMetadataVars

MetadataNext == ParseMetadata

InitMetadata ==
    /\ MetadataInit
    /\ NavParked /\ MergeParked /\ SlideParked /\ CenteredParked
    /\ LaterPartsParked

SpecMetadata == InitMetadata /\ [][MetadataNext]_vars

(***************************************************************************)
(* Claims about parse_metadata                                             *)
(***************************************************************************)
\* The lines of a text, a last line without line feed included.
DocLines(text) == str_lines(text)

\* The indices of the lines behind the first that consist of --- alone.
ClosingLines(text) ==
    {k \in 2..Len(DocLines(text)) : DocLines(text)[k] = <<Dashes>>}

\* The text begins with a front-matter block: its first line is --- and a
\* later line is --- too.
BeginsWithFrontMatter(text) ==
    /\ DocLines(text) # <<>>
    /\ DocLines(text)[1] = <<Dashes>>
    /\ ClosingLines(text) # {}

\* The offset behind the line feed that ends the k-th line (Len(text) when
\* the text ends before).
RECURSIVE OffsetBehindLine(_, _, _)
OffsetBehindLine(text, k, p) ==
    IF k = 0 THEN p
    ELSE OffsetBehindLine(text, k - 1, Min(next_nl(text, p) + 1, Len(text)))

\* The text without its front-matter block: what follows the first closing line.
WithoutFirstBlock(text) ==
    LET k == CHOOSE k \in ClosingLines(text) : \A j \in ClosingLines(text) : k <= j
    IN  SubSeq(text, OffsetBehindLine(text, k, 0) + 1, Len(text))

\* C9: for a file that does not begin with a well-formed front-matter block,
\* parse_metadata returns author, title and subtitle unset and the input as
\* the body, whatever key: value lines the file holds.
C9_NoFrontMatterNoMetadata ==
    (dpc = "done" /\ ~BeginsWithFrontMatter(dContent)) =>
        /\ dMetadata = [author |-> None, title |-> None, subtitle |-> None]
        /\ dBody = dContent

\* C10: for a file that begins with a well-formed front-matter block, the
\* body is the input without that block, from the opening --- line through
\* the first --- line that follows, everything behind it unchanged.
C10_BodyWithoutFirstBlock ==
    (dpc = "done" /\ BeginsWithFrontMatter(dContent)) =>
        dBody = WithoutFirstBlock(dContent)

(***************************************************************************)
(* main (src/src/main.rs): the split of the body into slides.              *)
(*                                                                         *)
(* The body is a sequence of atoms: the three parts of the delimiter       *)
(* "<!-- end_slide -->", which may also stand alone, and other text.       *)
(***************************************************************************)
CommentOpen == "<!--"
EndSlideWord == " end_slide "
CommentClose == "-->"

\* "<!-- end_slide -->"
Delimiter == <<CommentOpen, EndSlideWord, CommentClose>>

BodyAtoms == {CommentOpen, EndSlideWord, CommentClose, "a"}

\* str::split(pat), the scan at offset p of the piece that began at offset
\* start: the matches are taken from left to right without overlap, each
\* ends a piece, and what follows the last match is the last piece.
RECURSIVE split_from(_, _, _, _)
split_from(text, pat, p, start) ==
    IF p + Len(pat) > Len(text) THEN <<SubSeq(text, start + 1, Len(text))>>
    ELSE IF matches_at(text, pat, p)
    THEN <<SubSeq(text, start + 1, p)>>
         \o split_from(text, pat, p + Len(pat), p + Len(pat))
    ELSE split_from(text, pat, p + 1, start)

\* Mutant: an empty piece behind the last delimiter is dropped.
split_without_empty_tail(text, pat) ==
    LET pieces == split_from(text, pat, 0, 0)
    IN  IF Len(pieces) > 1 /\ pieces[Len(pieces)] = <<>>
        THEN SubSeq(pieces, 1, Len(pieces) - 1)
        ELSE pieces

split(text, pat) == split_from(text, pat, 0, 0)

SplitInit ==
    /\ \E n \in 0..MaxBodyLen : \E text \in [1..n -> BodyAtoms] : bBody = text
    /\ bpc = "call"
    /\ bSlides = <<>>

\* content_without_metadata.split("<!-- end_slide -->").collect()
SplitSlides ==
    /\ bpc = "call"
    /\ bSlides' = split(bBody, Delimiter)
    /\ bpc' = "done"
    /\ UNCHANGED bBody
    /\ UNCHANGED nonSplitVars

SplitNext == SplitSlides

InitSplit ==
    /\ SplitInit
    /\ NavParked /\ MergeParked /\ SlideParked /\ CenteredParked /\ MetadataParked
    /\ ProgressParked /\ PrefixParked

SpecSplit == InitSplit /\ [][SplitNext]_vars

(***************************************************************************)
(* Claims about the slide split                                            *)
(***************************************************************************)
\* The offsets of the body at which the delimiter occurs.
Occurrences(text) == {k \in 0..Len(text) : matches_at(text, Delimiter, k)}

\* The slides put together again, the delimiter between each two.
RECURSIVE Rejoined(_)
Rejoined(slides) ==
    IF Len(slides) = 1 THEN slides[1]
    ELSE slides[1] \o Delimiter \o Rejoined(Tail(slides))

\* C11: a body with k occurrences of the delimiter is split into k + 1
\* slides, none holds the delimiter, and the slides with the delimiter put
\* back between them are the body; with no delimiter the one slide is the
\* body, and the empty body gives one empty slide.
C11_SplitAtDelimiters ==
    bpc = "done" =>
        /\ Len(bSlides) = Cardinality(Occurrences(bBody)) + 1
        /\ \A i \in 1..Len(bSlides) : ~contains(bSlides[i], Delimiter)
        /\ Rejoined(bSlides) = bBody
        /\ Occurrences(bBody) = {} => bSlides = <<bBody>>
        /\ bBody = <<>> => bSlides = <<<<>>>>

\* A body that ends with a delimiter, behind a slide that holds the opening
\* part of one: two delimiters, three slides, the last two empty.
C11_Witness ==
    /\ bpc = "done"
    /\ bBody = <<CommentOpen>> \o Delimiter \o Delimiter
    /\ bSlides = <<<<CommentOpen>>, <<>>, <<>>>>

(***************************************************************************)
(* render_progress_bar (src/src/rendering.rs)                              *)
(*                                                                         *)
(* progress_ratio and its product with the width are f32.  An f32 is       *)
(* written [m, e], the value m * 2^e with m = 0 or 2^23 <= m < 2^24, and   *)
(* each operation rounds its exact result to the nearest such value, ties  *)
(* to the even m.                                                          *)
(***************************************************************************)
RECURSIVE Pow2(_)
Pow2(n) == IF n = 0 THEN 1 ELSE 2 * Pow2(n - 1)

\* The integer nearest to a / b, the even one of two that are equally near.
RoundHalfEven(a, b) ==
    LET q == a \div b
        r == a % b
    IN  IF 2 * r < b THEN q
        ELSE IF 2 * r > b THEN q + 1
        ELSE IF q % 2 = 0 THEN q ELSE q + 1

\* A rounding that carried into the 25th bit.
f32_normal(m, e) ==
    IF m = Pow2(24) THEN [m |-> Pow2(23), e |-> e + 1] ELSE [m |-> m, e |-> e]

\* The least s with a * 2^s / b >= 2^23, from s on.
RECURSIVE div_shift(_, _, _)
div_shift(a, b, s) ==
    IF (a * Pow2(s)) \div b >= Pow2(23) THEN s ELSE div_shift(a, b, s + 1)

\* a as f32 / b as f32, for integers below 2^24, which the casts keep exact.
f32_div(a, b) ==
    IF a = 0 THEN [m |-> 0, e |-> 0]
    ELSE LET s == div_shift(a, b, 0)
         IN  f32_normal(RoundHalfEven(a * Pow2(s), b), 0 - s)

\* The least t with p / 2^t < 2^24, from t on.
RECURSIVE mul_shift(_, _)
mul_shift(p, t) ==
    IF p \div Pow2(t) < Pow2(24) THEN t ELSE mul_shift(p, t + 1)

\* x * w as f32, for an integer w below 2^24.
f32_mul(x, w) ==
    IF x.m = 0 \/ w = 0 THEN [m |-> 0, e |-> 0]
    ELSE LET t == mul_shift(x.m * w, 0)
         IN  f32_normal(RoundHalfEven(x.m * w, Pow2(t)), x.e + t)

\* x as usize: the fraction is cut off.
f32_as_usize(x) ==
    IF x.e >= 0 THEN x.m * Pow2(x.e) ELSE x.m \div Pow2(0 - x.e)

\* Mutant: the ratio counts one slide too many.
progress_ratio_one_more(current, total) == f32_div(current + 2, total)

\* current_slide.add(1) as f32 / total_slides as f32
progress_ratio(current, total) == f32_div(current + 1, total)

\* (progress_ratio * width as f32) as usize
progress_length(current, total, width) ==
    f32_as_usize(f32_mul(progress_ratio(current, total), width))

\* The slide list is never empty and current_slide is one of its indices.
ProgressInit ==
    /\ gTotal \in 1..MaxSlides
    /\ gCurrent \in 0..(gTotal - 1)
    /\ gWidth \in 0..MaxWidth
    /\ gpc = "call"
    /\ gLength = 0
    /\ gBlank = [kind |-> "value", n |-> 0]

\* render_progress_bar, in a build with or without overflow checks: the
\* filled part, then " ".repeat(width as usize - progress_length).
RenderProgressBar ==
    /\ gpc = "call"
    /\ gLength' = progress_length(gCurrent, gTotal, gWidth)
    /\ \E overflow_checks \in BOOLEAN :
          gBlank' = usize_sub(gWidth, gLength', overflow_checks)
    /\ gpc' = after_repeat(gBlank')
    /\ UNCHANGED <<gWidth, gCurrent, gTotal>>
    /\ UNCHANGED nonProgressVars

ProgressNext == RenderProgressBar

InitProgress ==
    /\ ProgressInit
    /\ NavParked /\ MergeParked /\ SlideParked /\ CenteredParked /\ MetadataParked
    /\ SplitParked /\ PrefixParked

SpecProgress == InitProgress /\ [][ProgressNext]_vars

(***************************************************************************)
(* Claims about the progress bar                                           *)
(***************************************************************************)
\* C15: for every number of slides, slide index and width the filled length
\* is within 0 .. width, the blank remainder width - filled does not
\* underflow, and on the last slide the filled length is the width.
C15_FilledWithinWidth ==
    gpc # "call" =>
        /\ gpc = "done"
        /\ gLength \in 0..gWidth
        /\ gBlank = [kind |-> "value", n |-> gWidth - gLength]
        /\ gCurrent = gTotal - 1 => gLength = gWidth

\* The last of three slides on a terminal whose width three does not divide.
C15_Witness ==
    /\ gpc = "done"
    /\ gTotal = 3
    /\ gCurrent = 2
    /\ gWidth = 7
    /\ gLength = 7

\* The integer nearest to a / b, the upper one of two that are equally near.
Nearest(a, b) == (2 * a + b) \div (2 * b)

\* C16: the filled length is width * (index + 1) / N rounded to the nearest
\* integer, not cut off.
C16_FilledIsRounded ==
    gpc = "done" => gLength = Nearest(gWidth * (gCurrent + 1), gTotal)

(***************************************************************************)
(* extract_prefix (src/src/rendering.rs), called on its own with every     *)
(* string over '#', ' ' and one other character.                           *)
(***************************************************************************)
PrefixChars == {"#", " ", "a"}

PrefixInit ==
    /\ \E n \in 0..MaxStrLen : \E str \in [1..n -> PrefixChars] : xInput = str
    /\ xpc = "call"
    /\ xResult = [prefix |-> <<>>, rest |-> <<>>]

ExtractPrefix ==
    /\ xpc = "call"
    /\ xResult' = extract_prefix(xInput)
    /\ xpc' = "done"
    /\ UNCHANGED xInput
    /\ UNCHANGED nonPrefixVars

PrefixNext == ExtractPrefix

InitPrefix ==
    /\ PrefixInit
    /\ NavParked /\ MergeParked /\ SlideParked /\ CenteredParked /\ MetadataParked
    /\ SplitParked /\ ProgressParked

SpecPrefix == InitPrefix /\ [][PrefixNext]_vars

(***************************************************************************)
(* Claims about extract_prefix                                             *)
(***************************************************************************)
\* n times the character c.
Run(c, n) == [k \in 1..n |-> c]

\* C19: extract_prefix(s) is (p, r), p the longest run of '#' s begins with
\* and r the text of s behind that run and the white space that follows it:
\* s is p, then white space alone, then r, and r does not begin with white
\* space.
C19_PrefixAndRest ==
    xpc = "done" =>
        LET p == xResult.prefix
            r == xResult.rest
        IN  /\ p = Run("#", Len(p))
            /\ starts_with(xInput, p)
            /\ Len(p) < Len(xInput) => xInput[Len(p) + 1] # "#"
            /\ \E w \in 0..Len(xInput) : xInput = p \o Run(" ", w) \o r
            /\ r = <<>> \/ r[1] # " "

\* "##  a": two '#', two spaces and the rest, as in the repository's test
\* test_remove_leading_whitespaces_from_rest.
C19_Witness ==
    /\ xpc = "done"
    /\ xInput = <<"#", "#", " ", " ", "a">>
    /\ xResult = [prefix |-> <<"#", "#">>, rest |-> <<"a">>]

====
